---- MODULE Spec2Model ----
(***************************************************************************)
(* A model of the tlru cache (src/tlru.go, the generic version in lines    *)
(* 1-512): a map index, a doubly linked recency list with two sentinels,   *)
(* a reader/writer lock, a one-shot garbage collection timer and an        *)
(* eviction channel.                                                       *)
(*                                                                         *)
(* Nodes live in a heap addressed by positive integers; Nil (0) is Go's    *)
(* nil pointer.  Addresses are not observable in Go, so after every step   *)
(* the heap is garbage collected and renumbered in a fixed visiting order  *)
(* (Canon).  Every reading of the clock (time.Now, time.Since) is an       *)
(* input of the step that makes it: readings never decrease, and the       *)
(* clock may advance between two readings of one step.                     *)
(*                                                                         *)
(* A step that holds the write lock is atomic for every other goroutine;   *)
(* its channel sends that do not fit in the channel buffer wait in outbox, *)
(* and the lock stays held until outbox is empty.                          *)
(***************************************************************************)
EXTENDS Integers, Sequences, FiniteSets, TLC

\* ------------------------------------------------------------------ bounds
MaxClock == 1          \* the clock runs over 0..MaxClock
MaxCounter == 2        \* counters are capped in the guards
MaxStateLen == 3       \* longest State.Entries handed to SetState
ChanCap == 1           \* buffer size of the eviction channel
MaxPendingSweeps == 1  \* timer callbacks fired and not yet run
MaxCalls == 3          \* public calls made in one run

KeySeq == <<"a", "b", "c">>
KeySet == {KeySeq[i] : i \in 1..Len(KeySeq)}
Values == {1, 2}

\* ------------------------------------------------------------ vocabulary
Nil == 0
NoKey == ""
NoTimestamp == -1
LRA == "LRA"
LRI == "LRI"
EvictionReasonDropped == "Dropped"
EvictionReasonExpired == "Expired"
EvictionReasonDeleted == "Deleted"

VARIABLES
  config,      \* Config: MaxSize, TTL, EvictionPolicy, EvictionChannel set or nil
  cache,       \* tlru.cache: key -> node address
  heap,        \* address -> doublyLinkedNode
  headNode,    \* tlru.headNode
  tailNode,    \* tlru.tailNode
  garbageCollectionTimer,  \* "nil", "armed" (scheduled) or "fired"
  sweeps,      \* timer callbacks that have fired and wait for the lock
  outbox,      \* sends of the lock holder that wait for room in the channel
  chan,        \* buffer of the eviction channel
  pc,          \* caller -> position inside its current operation
  arg,         \* caller -> key of the Get in progress
  lnode,       \* caller -> linkedNode held by the Get in progress
  ret,         \* caller -> what its last completed call returned
  clock,       \* last reading of the clock
  calls,       \* public calls started so far
  hits,        \* history, LRA only: key of an entry inserted by Set -> number of
               \* Gets that returned it since it was inserted
  fault        \* "none", "panic" (nil dereference) or "hang" (endless loop)

vars == <<config, cache, heap, headNode, tailNode, garbageCollectionTimer,
          sweeps, outbox, chan, pc, arg, lnode, ret, clock, calls, hits, fault>>

Range(s) == {s[i] : i \in 1..Len(s)}

Min(a, b) == IF a < b THEN a ELSE b

\* sync.RWMutex: the write lock is held across steps only by a blocked sender
Locked == outbox # <<>>

\* notified is history: the number of notifications sent for the node
doublyLinkedNode(k, v, c, lu, cr, p, n) ==
  [key |-> k, value |-> v, counter |-> c, lastUsedAt |-> lu, createdAt |-> cr,
   previous |-> p, next |-> n, notified |-> 0]

ToCacheEntry(d) ==
  [Key |-> d.key, Value |-> d.value, Counter |-> d.counter,
   LastUsedAt |-> d.lastUsedAt, CreatedAt |-> d.createdAt]

\* EvictedAt (one more reading of the clock) is not part of the model
ToEvictedEntry(d, reason) ==
  [Key |-> d.key, Value |-> d.value, Counter |-> d.counter,
   LastUsedAt |-> d.lastUsedAt, CreatedAt |-> d.createdAt, Reason |-> reason]

ToStateEntry(d) ==
  [Key |-> d.key, Value |-> d.value, Counter |-> d.counter,
   LastUsedAt |-> d.lastUsedAt, CreatedAt |-> d.createdAt]

\* time.Since(t) read at clock reading now
Since(now, t) == now - t

\* Variant: an entry expires when its age reaches TTL
IsExpiredAtTTL(now, d) == config.TTL <= Since(now, d.lastUsedAt)

\* The expiry test of Get and of the sweep (tlru.go 212, 506) at reading now
IsExpired(now, d) == config.TTL < Since(now, d.lastUsedAt)

\* Variant: a use is never counted
CountsUseNever(now, d) == FALSE

\* Variant: a use is counted whatever the age of the entry
CountsUseAlways(now, d) == TRUE

\* The counting test of handleNodeState (tlru.go 464) at reading now
CountsUse(now, d) == config.TTL >= Since(now, d.lastUsedAt)

\* Variant: a MaxSize of 0 bounds the cache to one entry
CacheFullAtOne(c, exists) ==
  ~exists /\ Cardinality(DOMAIN c) = (IF config.MaxSize = 0 THEN 1 ELSE config.MaxSize)

\* The overflow test of set (tlru.go 256)
CacheFull(c, exists) ==
  config.MaxSize # 0 /\ ~exists /\ Cardinality(DOMAIN c) = config.MaxSize

\* Variant: set never refuses a key
DuplicateKeyNever(exists) == FALSE

\* The duplicate key test of set (tlru.go 260)
DuplicateKey(exists) == exists /\ config.EvictionPolicy = LRA

\* Variant: Get touches the entry under every policy
TouchesOnGetAlways == TRUE

\* The policy test of Get (tlru.go 220)
TouchesOnGet == config.EvictionPolicy = LRA

\* Variant: the timestamp of the entry is ignored
LastUsedAtNow(e, r1) == r1

\* The lastUsedAt of handleNodeState (tlru.go 457-461): the timestamp of the
\* entry, or else the clock reading r1
LastUsedAtOf(e, r1) == IF e.Timestamp # NoTimestamp THEN e.Timestamp ELSE r1

\* Variant: a new node starts at 0 under every policy
InitialCounterZero == IF config.EvictionPolicy = LRI THEN 0 ELSE 0

\* The counter of a new node (tlru.go 453-456)
InitialCounter == IF config.EvictionPolicy = LRI THEN 1 ELSE 0

\* The cache as a value: W(h, c, hd, tl)
W(h, c, hd, tl) == [heap |-> h, cache |-> c, headNode |-> hd, tailNode |-> tl]

\* Result of a piece of code run on a cache value: the new value, the
\* notifications it sent in order, and how it ended: "none" (it returned),
\* "panic" (it dereferenced nil) or "hang" (it loops for ever)
Res(w, notes, flt) == [w |-> w, notes |-> notes, fault |-> flt]

Alloc(h) == Len(h) + 1

\* ----------------------------------------------------------- the list code
initializeDoublyLinkedList(w) ==
  LET hd == Alloc(w.heap)
      tl == hd + 1
      h  == w.heap \o << doublyLinkedNode(NoKey, 0, 0, 0, 0, Nil, tl),
                         doublyLinkedNode(NoKey, 0, 0, 0, 0, hd, Nil) >>
  IN  W(h, w.cache, hd, tl)

clear(w) ==
  IF Cardinality(DOMAIN w.cache) > 0
    THEN initializeDoublyLinkedList(W(w.heap, << >>, w.headNode, w.tailNode))
    ELSE w

MapDelete(c, k) == [x \in (DOMAIN c) \ {k} |-> c[x]]

MapPut(c, k, n) == [x \in (DOMAIN c) \cup {k} |-> IF x = k THEN n ELSE c[x]]

evictEntry(w, evictedNode, reason) ==
  LET h0 == w.heap
      p  == h0[evictedNode].previous
  IN  IF p = Nil THEN Res(w, << >>, "panic")
      ELSE
      LET h1 == [h0 EXCEPT ![p].next = h0[evictedNode].next]
          n  == h1[evictedNode].next
      IN  IF n = Nil THEN Res(W(h1, w.cache, w.headNode, w.tailNode), << >>, "panic")
          ELSE
          LET h2 == [h1 EXCEPT ![n].previous = h1[evictedNode].previous]
              c2 == MapDelete(w.cache, h2[evictedNode].key)
              note == IF config.EvictionChannel
                        THEN << ToEvictedEntry(h2[evictedNode], reason) >>
                        ELSE << >>
              h3 == [h2 EXCEPT ![evictedNode].notified = @ + Len(note)]
          IN  Res(W(h3, c2, w.headNode, w.tailNode), note, "none")

\* Re-wire headNode (tlru.go 486-490) for node n
RewireHead(w, n) ==
  LET h0 == w.heap
      h1 == [h0 EXCEPT ![n].previous = w.headNode]
      h2 == [h1 EXCEPT ![n].next = h1[w.headNode].next]
      f  == h2[w.headNode].next
  IN  IF f = Nil THEN Res(W(h2, w.cache, w.headNode, w.tailNode), << >>, "panic")
      ELSE
      LET h3 == [h2 EXCEPT ![f].previous = n]
          h4 == [h3 EXCEPT ![w.headNode].next = n]
      IN  Res(W(h4, w.cache, w.headNode, w.tailNode), << >>, "none")

\* handleNodeState with its two clock readings: r1 is time.Now() of line
\* 458, r2 is time.Since of line 464 (key present) or time.Now() of line 480
handleNodeState(w, e, r1, r2) ==
  LET counter == InitialCounter
      lastUsedAt == LastUsedAtOf(e, r1)
  IN  IF e.Key \in DOMAIN w.cache
      THEN
        LET n  == w.cache[e.Key]
            h0 == w.heap
            h1 == [h0 EXCEPT ![n].counter =
                     IF CountsUse(r2, h0[n]) THEN @ + 1 ELSE @]
            h2 == [h1 EXCEPT ![n].lastUsedAt = lastUsedAt]
            nx == h2[n].next
        IN  IF nx = Nil THEN Res(W(h2, w.cache, w.headNode, w.tailNode), << >>, "panic")
            ELSE
            LET h3 == [h2 EXCEPT ![nx].previous = h2[n].previous]
                pv == h3[n].previous
            IN  IF pv = Nil THEN Res(W(h3, w.cache, w.headNode, w.tailNode), << >>, "panic")
                ELSE
                LET h4 == [h3 EXCEPT ![pv].next = h3[n].next]
                IN  RewireHead(W(h4, w.cache, w.headNode, w.tailNode), n)
      ELSE
        LET n  == Alloc(w.heap)
            h1 == Append(w.heap,
                    doublyLinkedNode(e.Key, e.Value, counter, lastUsedAt, r2,
                                     w.headNode, w.heap[w.headNode].next))
        IN  RewireHead(W(h1, MapPut(w.cache, e.Key, n), w.headNode, w.tailNode), n)

\* nondecreasing sequences of n clock readings in lo..hi
RECURSIVE Readings(_, _, _)
Readings(n, lo, hi) ==
  IF n = 0 THEN {<< >>}
  ELSE UNION {{<<x>> \o s : s \in Readings(n - 1, x, hi)} : x \in lo..hi}

\* The loop of evictExpiredEntries from previousNode on; reads[i] is the
\* clock reading of time.Since in iteration i.  The result also carries
\* used, the number of iterations made.
RECURSIVE SweepFrom(_, _, _, _, _)
SweepFrom(w, previousNode, reads, i, notes) ==
  IF previousNode = Nil \/ previousNode = w.headNode
    THEN [w |-> w, notes |-> notes, fault |-> "none", used |-> i - 1]
  ELSE IF i > Len(reads)
    THEN [w |-> w, notes |-> notes, fault |-> "hang", used |-> i - 1]
  ELSE
    LET r == IF IsExpired(reads[i], w.heap[previousNode])
               THEN evictEntry(w, previousNode, EvictionReasonExpired)
               ELSE Res(w, << >>, "none")
    IN  IF r.fault # "none"
          THEN [w |-> r.w, notes |-> notes \o r.notes, fault |-> r.fault, used |-> i]
          ELSE SweepFrom(r.w, r.w.heap[previousNode].previous, reads, i + 1,
                         notes \o r.notes)

\* Variant: the loop ends at the first node that has not expired
RECURSIVE SweepUntilLive(_, _, _, _, _)
SweepUntilLive(w, previousNode, reads, i, notes) ==
  IF previousNode = Nil \/ previousNode = w.headNode
    THEN [w |-> w, notes |-> notes, fault |-> "none", used |-> i - 1]
  ELSE IF i > Len(reads)
    THEN [w |-> w, notes |-> notes, fault |-> "hang", used |-> i - 1]
  ELSE IF ~IsExpired(reads[i], w.heap[previousNode])
    THEN [w |-> w, notes |-> notes, fault |-> "none", used |-> i]
  ELSE
    LET r == evictEntry(w, previousNode, EvictionReasonExpired)
    IN  IF r.fault # "none"
          THEN [w |-> r.w, notes |-> notes \o r.notes, fault |-> r.fault, used |-> i]
          ELSE SweepUntilLive(r.w, r.w.heap[previousNode].previous, reads, i + 1,
                              notes \o r.notes)

evictExpiredEntriesUntilLive(w, reads) ==
  SweepUntilLive(w, w.heap[w.tailNode].previous, reads, 1, << >>)

\* Variant: the sweep notifies from the head's side first
evictExpiredEntriesHeadFirst(w, reads) ==
  LET r == SweepFrom(w, w.heap[w.tailNode].previous, reads, 1, << >>)
  IN  [r EXCEPT !.notes = [i \in 1..Len(@) |-> @[Len(@) + 1 - i]]]

evictExpiredEntries(w, reads) ==
  SweepFrom(w, w.heap[w.tailNode].previous, reads, 1, << >>)

\* The loop of GetState: the entries met walking next from n to tailNode;
\* after more iterations than there are nodes the loop never ends
RECURSIVE WalkNext(_, _, _, _)
WalkNext(w, n, fuel, entries) ==
  IF n = Nil \/ n = w.tailNode THEN [entries |-> entries, fault |-> "none"]
  ELSE IF fuel = 0 THEN [entries |-> entries, fault |-> "hang"]
  ELSE WalkNext(w, w.heap[n].next, fuel - 1, Append(entries, ToStateEntry(w.heap[n])))

\* The loop of SetState over state.Entries, from entry i on
RECURSIVE Rehydrate(_, _, _, _, _)
Rehydrate(h, c, previousNode, entries, i) ==
  IF i > Len(entries) THEN [heap |-> h, cache |-> c, previousNode |-> previousNode]
  ELSE
    LET e  == entries[i]
        n  == Alloc(h)
        h1 == Append(h, doublyLinkedNode(e.Key, e.Value, e.Counter, e.LastUsedAt,
                                         e.CreatedAt, Nil, Nil))
        h2 == [h1 EXCEPT ![previousNode].next = n]
        h3 == [h2 EXCEPT ![n].previous = previousNode]
    IN  Rehydrate(h3, MapPut(c, e.Key, n), n, entries, i + 1)

\* Variant: the last node made is left out of the list
RehydratedShort(w, entries) ==
  LET w1 == clear(w)
      rh == Rehydrate(w1.heap, << >>, w1.headNode, entries, 1)
      last == IF rh.previousNode = w1.headNode THEN w1.headNode
              ELSE rh.heap[rh.previousNode].previous
      h1 == [rh.heap EXCEPT ![last].next = w1.tailNode]
      h2 == [h1 EXCEPT ![w1.tailNode].previous = last]
  IN  W(h2, rh.cache, w1.headNode, w1.tailNode)

\* SetState after the policy test (tlru.go 348-367): the cache made of entries
Rehydrated(w, entries) ==
  LET w1 == clear(w)
      rh == Rehydrate(w1.heap, << >>, w1.headNode, entries, 1)
      h1 == [rh.heap EXCEPT ![rh.previousNode].next = w1.tailNode]
      h2 == [h1 EXCEPT ![w1.tailNode].previous = rh.previousNode]
  IN  W(h2, rh.cache, w1.headNode, w1.tailNode)

\* ------------------------------------------------- addresses and garbage
\* Visiting order of the nodes the program can still reach
RECURSIVE Visit(_, _, _)
Visit(h, done, todo) ==
  IF todo = << >> THEN done
  ELSE LET n == Head(todo)
       IN  IF n = Nil \/ n \in Range(done)
             THEN Visit(h, done, Tail(todo))
             ELSE Visit(h, Append(done, n), <<h[n].next, h[n].previous>> \o Tail(todo))

\* The cache value w and the callers' linkedNode pointers ln with the
\* unreachable nodes dropped and the addresses renumbered in visiting order
Canon(w, ln) ==
  LET roots == <<w.headNode, w.tailNode>>
               \o [i \in 1..Len(KeySeq) |->
                     IF KeySeq[i] \in DOMAIN w.cache THEN w.cache[KeySeq[i]] ELSE Nil]
               \o [t \in 1..Cardinality(DOMAIN ln) |-> ln[t]]
      order == Visit(w.heap, << >>, roots)
      new(n) == IF n = Nil THEN Nil ELSE CHOOSE i \in 1..Len(order) : order[i] = n
  IN  [w  |-> W([i \in 1..Len(order) |->
                   [w.heap[order[i]] EXCEPT !.previous = new(@), !.next = new(@)]],
                 [k \in DOMAIN w.cache |-> new(w.cache[k])],
                 new(w.headNode), new(w.tailNode)),
       ln |-> [t \in DOMAIN ln |-> new(ln[t])]]

\* ------------------------------------------------------------------ steps
Here == W(heap, cache, headNode, tailNode)

\* What one step of caller or sweeper leaves behind: r is the result of the
\* code it ran under the lock, now the last clock reading it made
Commit(r, now, newpc, newarg, newlnode, newret, newhits) ==
  IF r.fault # "none"
    THEN /\ fault' = r.fault
         /\ clock' = now
         /\ UNCHANGED <<config, cache, heap, headNode, tailNode, outbox, chan,
                        pc, arg, lnode, ret, hits>>
    ELSE LET cn   == Canon(r.w, newlnode)
             fits == Min(ChanCap - Len(chan), Len(r.notes))
         IN  /\ heap' = cn.w.heap
             /\ cache' = cn.w.cache
             /\ headNode' = cn.w.headNode
             /\ tailNode' = cn.w.tailNode
             /\ lnode' = cn.ln
             /\ chan' = chan \o SubSeq(r.notes, 1, fits)
             /\ outbox' = SubSeq(r.notes, fits + 1, Len(r.notes))
             /\ pc' = newpc
             /\ arg' = newarg
             /\ ret' = newret
             /\ hits' = [k \in (DOMAIN newhits) \cap (DOMAIN cn.w.cache) |-> newhits[k]]
             /\ clock' = now
             /\ UNCHANGED <<config, fault>>

Idle(t) == [pc EXCEPT ![t] = "idle"]

\* What a call returned: op and key name the call, out is its result
Returned(t, op, k, out) == [ret EXCEPT ![t] = [op |-> op, key |-> k, out |-> out]]

NoNode(t) == [lnode EXCEPT ![t] = Nil]

\* Variant: a call does not wait for the write lock of a blocked sender
CanCallWhileBlocked(t) ==
  /\ fault = "none" /\ pc[t] = "idle"
  /\ calls < MaxCalls
  /\ calls' = calls + 1

\* A caller may start a call when it is idle and nobody holds the write lock
CanCall(t) ==
  /\ fault = "none" /\ ~Locked /\ pc[t] = "idle"
  /\ calls < MaxCalls
  /\ calls' = calls + 1

\* The history of key k starts again when a node is made for it
Inserted(k) == IF config.EvictionPolicy = LRA THEN (k :> 0) @@ hits ELSE hits

\* The counter of key k would pass the cap
AtCap(k) == k \in DOMAIN cache /\ heap[cache[k]].counter >= MaxCounter

\* ------------------------------------------------------- public operations
\* set (tlru.go 242-267): the whole call under the write lock
set(t, key, value, timestamp) ==
  /\ CanCall(t)
  /\ ~(config.EvictionPolicy = LRI /\ AtCap(key))
  /\ garbageCollectionTimer' =
       IF garbageCollectionTimer = "nil" THEN "armed" ELSE garbageCollectionTimer
  /\ UNCHANGED sweeps
  /\ LET entry  == [Key |-> key, Value |-> value, Timestamp |-> timestamp]
         exists == key \in DOMAIN cache
         ev == IF CacheFull(cache, exists)
                 THEN evictEntry(Here, heap[tailNode].previous, EvictionReasonDropped)
                 ELSE Res(Here, << >>, "none")
     IN  IF ev.fault # "none"
           THEN Commit(ev, clock, pc, arg, lnode, ret, hits)
         ELSE IF DuplicateKey(exists)
           THEN Commit(ev, clock, pc, arg, lnode, Returned(t, "Set", key, <<"error", value, timestamp>>), hits)
         ELSE \E r1 \in clock..MaxClock : \E r2 \in r1..MaxClock :
                LET hn == handleNodeState(ev.w, entry, r1, r2)
                IN  Commit(Res(hn.w, ev.notes \o hn.notes, hn.fault), r2,
                           pc, arg, lnode,
                           Returned(t, "Set", key, <<"nil", value, timestamp>>),
                           IF exists THEN hits ELSE Inserted(key))

Set(t, key, value) == set(t, key, value, NoTimestamp)

SetWithTimestamp(t, key, value, timestamp) == set(t, key, value, timestamp)

\* Get, first part (tlru.go 204-221): under the read lock, up to RUnlock
Get(t, key) ==
  /\ CanCall(t)
  /\ UNCHANGED <<garbageCollectionTimer, sweeps>>
  /\ IF key \notin DOMAIN cache
       THEN Commit(Res(Here, << >>, "none"), clock, pc, arg, lnode,
                   Returned(t, "Get", key, << >>), hits)
       ELSE \E now \in clock..MaxClock :
              LET linkedNode == cache[key]
              IN  IF IsExpired(now, heap[linkedNode])
                    THEN Commit(Res(Here, << >>, "none"), now,
                                [pc EXCEPT ![t] = "get_evict"],
                                [arg EXCEPT ![t] = key],
                                [lnode EXCEPT ![t] = linkedNode], ret, hits)
                  ELSE IF TouchesOnGet
                    THEN /\ ~AtCap(key)
                         /\ Commit(Res(Here, << >>, "none"), now,
                                   [pc EXCEPT ![t] = "get_touch"],
                                   [arg EXCEPT ![t] = key],
                                   [lnode EXCEPT ![t] = linkedNode], ret, hits)
                  ELSE Commit(Res(Here, << >>, "none"), now, pc, arg, lnode,
                              Returned(t, "Get", key,
                                       << ToCacheEntry(heap[linkedNode]) >>), hits)

\* Get on an expired entry, second part (tlru.go 214-217)
GetEvict(t) ==
  /\ fault = "none" /\ ~Locked /\ pc[t] = "get_evict"
  /\ UNCHANGED <<garbageCollectionTimer, sweeps, calls>>
  /\ Commit(evictEntry(Here, lnode[t], EvictionReasonExpired), clock,
            Idle(t), [arg EXCEPT ![t] = NoKey], NoNode(t),
            Returned(t, "Get", arg[t], << >>), hits)

\* Get under LRA, second part (tlru.go 222-224)
GetTouch(t) ==
  /\ fault = "none" /\ ~Locked /\ pc[t] = "get_touch"
  /\ UNCHANGED <<garbageCollectionTimer, sweeps, calls>>
  /\ \E r1 \in clock..MaxClock : \E r2 \in r1..MaxClock :
       Commit(handleNodeState(Here, [Key |-> arg[t], Value |-> heap[lnode[t]].value,
                                     Timestamp |-> NoTimestamp], r1, r2),
              r2, [pc EXCEPT ![t] = "get_snap"], arg, lnode, ret,
              IF arg[t] \in DOMAIN cache THEN hits ELSE Inserted(arg[t]))

\* Get under LRA, third part (tlru.go 225-231)
GetSnap(t) ==
  /\ fault = "none" /\ ~Locked /\ pc[t] = "get_snap"
  /\ UNCHANGED <<garbageCollectionTimer, sweeps, calls>>
  /\ Commit(Res(Here, << >>, "none"), clock, Idle(t), [arg EXCEPT ![t] = NoKey],
            NoNode(t), Returned(t, "Get", arg[t], << ToCacheEntry(heap[lnode[t]]) >>),
            [k \in DOMAIN hits |-> IF k = arg[t] THEN hits[k] + 1 ELSE hits[k]])

Delete(t, key) ==
  /\ CanCall(t)
  /\ UNCHANGED <<garbageCollectionTimer, sweeps>>
  /\ Commit(IF key \in DOMAIN cache
              THEN evictEntry(Here, cache[key], EvictionReasonDeleted)
              ELSE Res(Here, << >>, "none"),
            clock, pc, arg, lnode, Returned(t, "Delete", key, TRUE), hits)

\* Keys and Entries, first part (tlru.go 280-282, 296-298): the sweep
SweepThen(t, next) ==
  /\ CanCall(t)
  /\ UNCHANGED <<garbageCollectionTimer, sweeps>>
  /\ \E reads \in Readings(Len(heap), clock, MaxClock) :
       LET r == evictExpiredEntries(Here, reads)
       IN  Commit(Res(r.w, r.notes, r.fault),
                  IF r.used = 0 THEN clock ELSE reads[r.used],
                  [pc EXCEPT ![t] = next], arg, lnode, ret, hits)

Keys(t) == SweepThen(t, "keys_snap")

Entries(t) == SweepThen(t, "entries_snap")

\* Keys, second part (tlru.go 284-292): the snapshot under the read lock
KeysSnap(t) ==
  /\ fault = "none" /\ ~Locked /\ pc[t] = "keys_snap"
  /\ UNCHANGED <<garbageCollectionTimer, sweeps, calls>>
  /\ Commit(Res(Here, << >>, "none"), clock, Idle(t), arg, lnode,
            Returned(t, "Keys", NoKey, DOMAIN cache), hits)

\* Entries, second part (tlru.go 300-308)
EntriesSnap(t) ==
  /\ fault = "none" /\ ~Locked /\ pc[t] = "entries_snap"
  /\ UNCHANGED <<garbageCollectionTimer, sweeps, calls>>
  /\ Commit(Res(Here, << >>, "none"), clock, Idle(t), arg, lnode,
            Returned(t, "Entries", NoKey,
                     {ToCacheEntry(heap[cache[k]]) : k \in DOMAIN cache}), hits)

Clear(t) ==
  /\ CanCall(t)
  /\ garbageCollectionTimer' = "nil"
  /\ UNCHANGED sweeps
  /\ Commit(Res(clear(Here), << >>, "none"), clock, pc, arg, lnode,
            Returned(t, "Clear", NoKey, TRUE), << >>)

\* Variant: GetState leaves out the entries that are over the TTL
GetStateUnexpired(t) ==
  /\ CanCall(t)
  /\ UNCHANGED <<garbageCollectionTimer, sweeps>>
  /\ LET walk == WalkNext(Here, heap[headNode].next, Len(heap), << >>)
         Fresh(e) == config.TTL >= clock - e.LastUsedAt
     IN  Commit(Res(Here, << >>, walk.fault), clock, pc, arg, lnode,
                Returned(t, "GetState", NoKey,
                         [EvictionPolicy |-> config.EvictionPolicy,
                          Entries |-> SelectSeq(walk.entries, Fresh)]), hits)

GetState(t) ==
  /\ CanCall(t)
  /\ UNCHANGED <<garbageCollectionTimer, sweeps>>
  /\ LET walk == WalkNext(Here, heap[headNode].next, Len(heap), << >>)
     IN  Commit(Res(Here, << >>, walk.fault), clock, pc, arg, lnode,
                Returned(t, "GetState", NoKey,
                         [EvictionPolicy |-> config.EvictionPolicy,
                          Entries |-> walk.entries]), hits)

\* Variant: SetState links the entries of the state last entry first
SetStateReversed(t, state) ==
  /\ CanCall(t)
  /\ UNCHANGED <<garbageCollectionTimer, sweeps>>
  /\ IF state.EvictionPolicy # config.EvictionPolicy
       THEN Commit(Res(Here, << >>, "none"), clock, pc, arg, lnode,
                   Returned(t, "SetState", NoKey, "error"), hits)
       ELSE LET w1 == clear(Here)
                es == [i \in 1..Len(state.Entries) |->
                         state.Entries[Len(state.Entries) + 1 - i]]
                rh == Rehydrate(w1.heap, << >>, w1.headNode, es, 1)
                h1 == [rh.heap EXCEPT ![rh.previousNode].next = w1.tailNode]
                h2 == [h1 EXCEPT ![w1.tailNode].previous = rh.previousNode]
            IN  Commit(Res(W(h2, rh.cache, w1.headNode, w1.tailNode), << >>, "none"),
                       clock, pc, arg, lnode, Returned(t, "SetState", NoKey, "nil"),
                       << >>)

\* Variant: SetState takes a state of the other policy too
SetStateAnyPolicy(t, state) ==
  /\ CanCall(t)
  /\ UNCHANGED <<garbageCollectionTimer, sweeps>>
  /\ LET w1 == clear(Here)
         rh == Rehydrate(w1.heap, << >>, w1.headNode, state.Entries, 1)
         h1 == [rh.heap EXCEPT ![rh.previousNode].next = w1.tailNode]
         h2 == [h1 EXCEPT ![w1.tailNode].previous = rh.previousNode]
     IN  Commit(Res(W(h2, rh.cache, w1.headNode, w1.tailNode), << >>, "none"),
                clock, pc, arg, lnode, Returned(t, "SetState", NoKey, "nil"),
                << >>)

\* Variant: SetState starts the sweeper as set does
SetStateArming(t, state) ==
  /\ CanCall(t)
  /\ garbageCollectionTimer' =
       IF garbageCollectionTimer = "nil" THEN "armed" ELSE garbageCollectionTimer
  /\ UNCHANGED sweeps
  /\ IF state.EvictionPolicy # config.EvictionPolicy
       THEN Commit(Res(Here, << >>, "none"), clock, pc, arg, lnode,
                   Returned(t, "SetState", NoKey, "error"), hits)
       ELSE Commit(Res(Rehydrated(Here, state.Entries), << >>, "none"),
                   clock, pc, arg, lnode, Returned(t, "SetState", NoKey, "nil"),
                   << >>)

SetState(t, state) ==
  /\ CanCall(t)
  /\ UNCHANGED <<garbageCollectionTimer, sweeps>>
  /\ IF state.EvictionPolicy # config.EvictionPolicy
       THEN Commit(Res(Here, << >>, "none"), clock, pc, arg, lnode,
                   Returned(t, "SetState", NoKey, "error"), hits)
       ELSE Commit(Res(Rehydrated(Here, state.Entries), << >>, "none"),
                   clock, pc, arg, lnode, Returned(t, "SetState", NoKey, "nil"),
                   << >>)

\* Variant: Has looks at the expiry too
HasUnexpired(t, key) ==
  /\ CanCall(t)
  /\ UNCHANGED <<garbageCollectionTimer, sweeps>>
  /\ Commit(Res(Here, << >>, "none"), clock, pc, arg, lnode,
            Returned(t, "Has", key,
                     key \in DOMAIN cache /\ ~IsExpired(clock, heap[cache[key]])),
            hits)

Has(t, key) ==
  /\ CanCall(t)
  /\ UNCHANGED <<garbageCollectionTimer, sweeps>>
  /\ Commit(Res(Here, << >>, "none"), clock, pc, arg, lnode,
            Returned(t, "Has", key, key \in DOMAIN cache), hits)

\* ---------------------------------------------- timer, sweeper, channel
\* The timer of time.AfterFunc (tlru.go 247) goes off: the callback starts
TimerFires ==
  /\ fault = "none"
  /\ garbageCollectionTimer = "armed"
  /\ sweeps < MaxPendingSweeps
  /\ garbageCollectionTimer' = "fired"
  /\ sweeps' = sweeps + 1
  /\ UNCHANGED <<calls, config, cache, heap, headNode, tailNode, outbox, chan, pc, arg,
                 lnode, ret, clock, hits, fault>>

\* The callback (tlru.go 248-250) gets the lock and sweeps
Sweeper ==
  /\ fault = "none" /\ ~Locked /\ sweeps > 0
  /\ sweeps' = sweeps - 1
  /\ UNCHANGED <<garbageCollectionTimer, calls>>
  /\ \E reads \in Readings(Len(heap), clock, MaxClock) :
       LET r == evictExpiredEntries(Here, reads)
       IN  Commit(Res(r.w, r.notes, r.fault),
                  IF r.used = 0 THEN clock ELSE reads[r.used], pc, arg, lnode, ret,
                  hits)

\* Variant: the consumer has stopped receiving
ReceiveStalled ==
  /\ Len(chan) > ChanCap
  /\ chan' = Tail(chan)
  /\ UNCHANGED <<calls, config, cache, heap, headNode, tailNode, garbageCollectionTimer,
                 sweeps, outbox, pc, arg, lnode, ret, clock, hits, fault>>

\* Variant: of the sends that wait, the newest goes through first
SendNewest ==
  /\ Locked /\ Len(chan) < ChanCap
  /\ chan' = Append(chan, outbox[Len(outbox)])
  /\ outbox' = SubSeq(outbox, 1, Len(outbox) - 1)
  /\ UNCHANGED <<calls, config, cache, heap, headNode, tailNode, garbageCollectionTimer,
                 sweeps, pc, arg, lnode, ret, clock, hits, fault>>

\* The blocked send of the lock holder (tlru.go 499) goes through
Send ==
  /\ Locked /\ Len(chan) < ChanCap
  /\ chan' = Append(chan, Head(outbox))
  /\ outbox' = Tail(outbox)
  /\ UNCHANGED <<calls, config, cache, heap, headNode, tailNode, garbageCollectionTimer,
                 sweeps, pc, arg, lnode, ret, clock, hits, fault>>

\* The consumer receives from the eviction channel
Receive ==
  /\ chan # << >>
  /\ chan' = Tail(chan)
  /\ UNCHANGED <<calls, config, cache, heap, headNode, tailNode, garbageCollectionTimer,
                 sweeps, outbox, pc, arg, lnode, ret, clock, hits, fault>>

\* ------------------------------------------------------------ inputs, Init
\* SetWithTimestamp is called with the latest instant of the clock: a
\* timestamp in the future until the clock gets there
Timestamps == {MaxClock}

StateEntries ==
  [Key : KeySet, Value : {1}, Counter : {1}, LastUsedAt : {0}, CreatedAt : {0}]

\* State.Entries of SetState: up to MaxStateLen entries, entry i with key i
\* of KeySeq or with the first key again
StateEntrySeqs ==
  UNION {{s \in [1..n -> StateEntries] :
            \A i \in 1..n : s[i].Key \in {KeySeq[1], KeySeq[Min(i, Len(KeySeq))]}}
         : n \in 0..MaxStateLen}

States == [EvictionPolicy : {LRA, LRI}, Entries : StateEntrySeqs]

Configs ==
  [MaxSize : {2}, TTL : {0}, EvictionPolicy : {LRA, LRI}, EvictionChannel : {TRUE}]

\* New (tlru.go 180-201) for the callers 1..n
New(cfgs, n) ==
  /\ config \in cfgs
  /\ cache = << >>
  /\ heap = << doublyLinkedNode(NoKey, 0, 0, 0, 0, Nil, 2),
               doublyLinkedNode(NoKey, 0, 0, 0, 0, 1, Nil) >>
  /\ headNode = 1
  /\ tailNode = 2
  /\ garbageCollectionTimer = "nil"
  /\ sweeps = 0
  /\ outbox = << >>
  /\ chan = << >>
  /\ pc = [t \in 1..n |-> "idle"]
  /\ arg = [t \in 1..n |-> NoKey]
  /\ lnode = [t \in 1..n |-> Nil]
  /\ ret = [t \in 1..n |-> [op |-> "New", key |-> NoKey, out |-> TRUE]]
  /\ clock = 0
  /\ calls = 0
  /\ hits = << >>
  /\ fault = "none"

Init == New(Configs, 1)

\* A key is first written with the first value; a write of a key that is in
\* the cache carries any value
ValuesFor(k) == IF k \in DOMAIN cache THEN Values ELSE {1}

Next ==
  \/ \E t \in DOMAIN pc : \E k \in KeySet : \E v \in ValuesFor(k) : Set(t, k, v)
  \/ \E t \in DOMAIN pc : \E k \in KeySet, ts \in Timestamps : \E v \in ValuesFor(k) :
       SetWithTimestamp(t, k, v, ts)
  \/ \E t \in DOMAIN pc : \E k \in KeySet : Get(t, k)
  \/ \E t \in DOMAIN pc : GetEvict(t)
  \/ \E t \in DOMAIN pc : GetTouch(t)
  \/ \E t \in DOMAIN pc : GetSnap(t)
  \/ \E t \in DOMAIN pc : \E k \in KeySet : Delete(t, k)
  \/ \E t \in DOMAIN pc : Keys(t)
  \/ \E t \in DOMAIN pc : KeysSnap(t)
  \/ \E t \in DOMAIN pc : Entries(t)
  \/ \E t \in DOMAIN pc : EntriesSnap(t)
  \/ \E t \in DOMAIN pc : Clear(t)
  \/ \E t \in DOMAIN pc : GetState(t)
  \/ \E t \in DOMAIN pc : \E s \in States : SetState(t, s)
  \/ \E t \in DOMAIN pc : \E k \in KeySet : Has(t, k)
  \/ TimerFires
  \/ Sweeper
  \/ Send
  \/ Receive

Spec == Init /\ [][Next]_vars

\* A cache of one entry under LRA, where an overflow shows after the fewest calls
ConfigsOne ==
  [MaxSize : {1}, TTL : {0}, EvictionPolicy : {LRA}, EvictionChannel : {TRUE}]

InitOne == New(ConfigsOne, 1)

SpecOne == InitOne /\ [][Next]_vars

\* ================================================================ properties
\* No public call is under way: every call has returned and released the lock
Quiescent == ~Locked /\ \A t \in DOMAIN pc : pc[t] = "idle"

Population == Cardinality(DOMAIN cache)

\* The notifications emitted so far and not yet received
Emitted == chan \o outbox

\* The nodes met from head.next along next, up to fuel of them or to the tail
RECURSIVE Forward(_, _)
Forward(n, fuel) ==
  IF n = Nil \/ n = tailNode \/ fuel = 0 THEN << >>
  ELSE <<n>> \o Forward(heap[n].next, fuel - 1)

ListNodes == Forward(heap[headNode].next, Len(heap))

\* Caller t starts and ends a call of op in this step
Completes(t, op) ==
  /\ calls' = calls + 1
  /\ fault' = "none"
  /\ pc'[t] = "idle"
  /\ ret'[t].op = op

\* Caller t calls Set or SetWithTimestamp on key k in this step
SetStep(t, k) == Completes(t, "Set") /\ ret'[t].key = k

\* Caller t calls Get on key k in this step: the call ends in it, or goes on
\* to the eviction or to the touch
GetStep(t, k) ==
  \/ Completes(t, "Get") /\ ret'[t].key = k
  \/ /\ calls' = calls + 1 /\ fault' = "none"
     /\ pc'[t] \in {"get_evict", "get_touch"} /\ arg'[t] = k

\* The later steps of a Get of caller t
GetEvictStep(t) == pc[t] = "get_evict" /\ pc'[t] = "idle"

GetTouchStep(t) == pc[t] = "get_touch" /\ pc'[t] = "get_snap"

GetSnapStep(t) == pc[t] = "get_snap" /\ pc'[t] = "idle"

\* Node n is within TTL at clock reading now
Live(now, n) == config.TTL >= now - heap[n].lastUsedAt

\* After the step key k is in the index and its node is first in the list
AtFront(k) == k \in DOMAIN cache' /\ heap'[headNode'].next = cache'[k]

\* The step leaves the cache, the list and the notifications as they are
CacheUnchanged ==
  /\ cache' = cache /\ heap' = heap
  /\ headNode' = headNode /\ tailNode' = tailNode
  /\ chan' = chan /\ outbox' = outbox

\* C1: with MaxSize = N > 0, after any public operation returns the cache
\* holds at most N entries, also after a SetState of more than N entries
C1_PopulationWithinMaxSize ==
  (config.MaxSize > 0 /\ Quiescent) => Population <= config.MaxSize

\* C2: the keys of the index are the keys of the nodes linked between head
\* and tail, each node linked once and reachable by next from head and by
\* previous from tail, also after a SetState that repeats a key
C2_IndexMatchesList ==
  Quiescent =>
    /\ DOMAIN cache = {heap[n].key : n \in Range(ListNodes)}
    /\ \A k \in DOMAIN cache : cache[k] \in Range(ListNodes)
    /\ \A i, j \in 1..Len(ListNodes) :
         heap[ListNodes[i]].key = heap[ListNodes[j]].key => i = j
    /\ \A n \in Range(ListNodes) :
         heap[heap[n].next].previous = n /\ heap[heap[n].previous].next = n

\* C3: a Set of a new key on a full cache (MaxSize entries) removes the one
\* entry before the tail, emits one Dropped notification for it, puts the
\* new key at the head and leaves the population at MaxSize
C3_SetOnFullCacheDropsTail ==
  [][\A t \in DOMAIN pc : \A k \in KeySet :
       (SetStep(t, k) /\ k \notin DOMAIN cache
          /\ config.MaxSize > 0 /\ Population = config.MaxSize)
       => /\ Emitted' = Append(Emitted,
                               ToEvictedEntry(heap[heap[tailNode].previous],
                                              EvictionReasonDropped))
          /\ AtFront(k)
          /\ Cardinality(DOMAIN cache') = config.MaxSize]_vars

\* C4: under LRA a Set on a key that is in the cache returns an error and
\* changes nothing: value, counter, last-used time and list position stay,
\* and no notification is emitted
C4_DuplicateSetChangesNothing ==
  [][\A t \in DOMAIN pc : \A k \in KeySet :
       (SetStep(t, k) /\ config.EvictionPolicy = LRA /\ k \in DOMAIN cache)
       => (ret'[t].out[1] = "error" /\ CacheUnchanged)]_vars

C4_Witness ==
  /\ config.EvictionPolicy = LRA
  /\ ret[1].op = "Set" /\ ret[1].out[1] = "error"
  /\ ret[1].key \in DOMAIN cache
  /\ Population = config.MaxSize

\* C5: under LRA a Get on a present, non-expired key adds one to the stored
\* counter, sets lastUsedAt to the current time and moves the entry to the
\* front, and the snapshot returned shows the counter after the increment:
\* the n-th successful Get since insertion returns Counter = n
C5_GetCountsAndRefreshes ==
  [][\A t \in DOMAIN pc :
       /\ GetTouchStep(t)
           => /\ AtFront(arg[t])
              /\ heap'[cache'[arg[t]]].counter = heap[lnode[t]].counter + 1
              /\ heap'[cache'[arg[t]]].lastUsedAt \in clock..clock'
       /\ GetSnapStep(t)
           => /\ ret'[t].out # << >>
              /\ arg[t] \in DOMAIN cache
              /\ ret'[t].out[1].Counter = heap[cache[arg[t]]].counter
              /\ arg[t] \in DOMAIN hits
                   => ret'[t].out[1].Counter = hits'[arg[t]]]_vars

C7_GetUnderLRIChangesNothing ==
  [][\A t \in DOMAIN pc : \A k \in KeySet :
       (GetStep(t, k) /\ config.EvictionPolicy = LRI
          /\ k \in DOMAIN cache /\ Live(clock', cache[k]))
       => /\ CacheUnchanged
          /\ Completes(t, "Get")
          /\ ret'[t].out = << ToCacheEntry(heap[cache[k]]) >>]_vars

C7_Witness ==
  /\ config.EvictionPolicy = LRI
  /\ ret[1].op = "Get" /\ ret[1].out # << >>
  /\ Population = 2
  /\ heap[headNode].next # cache[ret[1].key]

\* C8: under LRI a Set on a present, non-expired key adds one to its counter,
\* sets lastUsedAt to the timestamp supplied or else to the current time,
\* moves it to the front, keeps the population and emits no notification
C8_SetUnderLRIRefreshes ==
  [][\A t \in DOMAIN pc : \A k \in KeySet :
       (SetStep(t, k) /\ config.EvictionPolicy = LRI
          /\ k \in DOMAIN cache /\ Live(clock', cache[k]))
       => /\ ret'[t].out[1] = "nil"
          /\ AtFront(k)
          /\ heap'[cache'[k]].counter = heap[cache[k]].counter + 1
          /\ IF ret'[t].out[3] = NoTimestamp
               THEN heap'[cache'[k]].lastUsedAt \in clock..clock'
               ELSE heap'[cache'[k]].lastUsedAt = ret'[t].out[3]
          /\ DOMAIN cache' = DOMAIN cache
          /\ Emitted' = Emitted]_vars

C8_Witness ==
  /\ config.EvictionPolicy = LRI
  /\ calls = 3
  /\ ret[1].op = "Set" /\ ret[1].out[1] = "nil"
  /\ Population = 2
  /\ ret[1].key \in DOMAIN cache
  /\ heap[cache[ret[1].key]].counter = 2
  /\ heap[cache[ret[1].key]].createdAt < heap[cache[ret[1].key]].lastUsedAt

\* C9: under LRI a Set(k, v2) on a present key stores v2: a following Get(k)
\* returns v2
C9_SetUnderLRIUpdatesValue ==
  [][\A t \in DOMAIN pc : \A k \in KeySet :
       (SetStep(t, k) /\ config.EvictionPolicy = LRI
          /\ k \in DOMAIN cache /\ ret'[t].out[1] = "nil")
       => (k \in DOMAIN cache' /\ heap'[cache'[k]].value = ret'[t].out[2])]_vars

NewNotes ==
  IF Len(Emitted') >= Len(Emitted)
    THEN SubSeq(Emitted', Len(Emitted) + 1, Len(Emitted'))
    ELSE << >>

\* The step is the receiver's
ReceiveStep == chan # << >> /\ chan' = Tail(chan) /\ outbox' = outbox

\* Caller t starts a call of Keys or Entries in this step: the sweep
SweepStep(t) ==
  /\ calls' = calls + 1 /\ fault' = "none"
  /\ pc'[t] \in {"keys_snap", "entries_snap"}

\* The step is the sweep of the timer's callback
SweeperStep == sweeps' = sweeps - 1

\* The step makes a node for a key that has none in the index
InsertStep ==
  \E t \in DOMAIN pc :
    \/ \E k \in KeySet : SetStep(t, k) /\ ret'[t].out[1] = "nil" /\ k \notin DOMAIN cache
    \/ GetTouchStep(t) /\ arg[t] \notin DOMAIN cache

\* The reason that matches the cause of the step's evictions
Cause ==
  IF \E t \in DOMAIN pc : Completes(t, "Delete") THEN EvictionReasonDeleted
  ELSE IF \E t \in DOMAIN pc : Completes(t, "Set") THEN EvictionReasonDropped
  ELSE EvictionReasonExpired

\* C11: every entry removed by an eviction (overflow, expiry found by Get,
\* Keys, Entries or the sweeper, Delete) produces exactly one notification
\* with its key, value and counter as they were and the reason of the cause;
\* Clear and SetState produce none
C11_OneNotificationPerEviction ==
  [][IF \E t \in DOMAIN pc : Completes(t, "Clear") \/ Completes(t, "SetState")
       THEN NewNotes = << >>
       ELSE ~ReceiveStep /\ fault' = "none"
            => /\ Len(NewNotes) =
                    Len(ListNodes) + (IF InsertStep THEN 1 ELSE 0) - Len(ListNodes')
               /\ \A i \in 1..Len(NewNotes) :
                    /\ NewNotes[i].Reason = Cause
                    /\ \E n \in Range(ListNodes) :
                         NewNotes[i] = ToEvictedEntry(heap[n], Cause)]_vars

\* C12: under any interleaving (two Gets of one expired key, a Get of an
\* expired key with a Delete, a Get with the sweeper or with Keys/Entries)
\* one inserted entry never produces more than one notification: the entry a
\* Get evicts has produced none before
C12_AtMostOneNotificationPerEntry ==
  [][\A t \in DOMAIN pc :
       (GetEvictStep(t) /\ NewNotes # << >>) => heap[lnode[t]].notified = 0]_vars

\* Caller t calls Delete on key k in this step
DeleteStep(t, k) == Completes(t, "Delete") /\ ret'[t].key = k

\* Caller t calls Has on key k in this step
HasStep(t, k) == Completes(t, "Has") /\ ret'[t].key = k

\* The last call caller t made was Delete(k), and it has returned
AfterDelete(t, k) == pc[t] = "idle" /\ ret[t].op = "Delete" /\ ret[t].key = k

\* C13: Delete(k) on a present key removes it from index and list and emits
\* one Deleted notification; on an absent key it changes and emits nothing;
\* after Delete(k) returned Has(k) is false and Get(k) returns nil
C13_DeleteRemovesKey ==
  [][\A t \in DOMAIN pc : \A k \in KeySet :
       /\ DeleteStep(t, k)
           => IF k \in DOMAIN cache
                THEN /\ DOMAIN cache' = DOMAIN cache \ {k}
                     /\ \A n \in Range(ListNodes') : heap'[n].key # k
                     /\ NewNotes = << ToEvictedEntry(heap[cache[k]],
                                                     EvictionReasonDeleted) >>
                ELSE CacheUnchanged
       /\ (AfterDelete(t, k) /\ HasStep(t, k)) => ret'[t].out = FALSE
       /\ (AfterDelete(t, k) /\ GetStep(t, k))
           => (Completes(t, "Get") /\ ret'[t].out = << >>)]_vars

\* C14: Has(k) returns true exactly when k is in the index at the call, also
\* when the entry's TTL has elapsed, and changes nothing: no eviction, no
\* change of order, counters or timestamps, no notification
C14_HasReadsTheIndex ==
  [][\A t \in DOMAIN pc : \A k \in KeySet :
       HasStep(t, k)
       => /\ ret'[t].out = (k \in DOMAIN cache)
          /\ CacheUnchanged
          /\ garbageCollectionTimer' = garbageCollectionTimer]_vars

C14_Witness ==
  /\ ret[1].op = "Has" /\ ret[1].out = TRUE
  /\ pc[1] = "idle"
  /\ ret[1].key \in DOMAIN cache
  /\ ~Live(clock, cache[ret[1].key])

\* The snapshot steps of Keys and Entries of caller t
KeysSnapStep(t) == pc[t] = "keys_snap" /\ pc'[t] = "idle"

EntriesSnapStep(t) == pc[t] = "entries_snap" /\ pc'[t] = "idle"

\* C15: with no other operation running, Keys and Entries first evict every
\* entry whose age is over TTL, each with one Expired notification, and then
\* return exactly the entries that remain: an entry expired when the call
\* starts is gone, an entry within TTL when the sweep ends is kept and
\* returned, and every key of the index is returned once
C15_KeysAndEntriesSweepFirst ==
  [][\A t \in DOMAIN pc :
       /\ SweepStep(t)
           => /\ \A k \in DOMAIN cache :
                   /\ ~Live(clock, cache[k]) => k \notin DOMAIN cache'
                   /\ Live(clock', cache[k])
                        => /\ k \in DOMAIN cache'
                           /\ ToCacheEntry(heap'[cache'[k]]) = ToCacheEntry(heap[cache[k]])
              /\ \A n \in Range(ListNodes') : config.TTL >= clock - heap'[n].lastUsedAt
              /\ DOMAIN cache' \subseteq DOMAIN cache
              /\ Len(NewNotes) = Len(ListNodes) - Len(ListNodes')
              /\ \A i \in 1..Len(NewNotes) :
                   \E n \in Range(ListNodes) :
                     /\ ~Live(clock', n)
                     /\ NewNotes[i] = ToEvictedEntry(heap[n], EvictionReasonExpired)
       /\ KeysSnapStep(t)
           => /\ ret'[t].op = "Keys" /\ ret'[t].out = DOMAIN cache
              /\ CacheUnchanged
       /\ EntriesSnapStep(t)
           => /\ ret'[t].op = "Entries"
              /\ ret'[t].out = {ToCacheEntry(heap[cache[k]]) : k \in DOMAIN cache}
              /\ CacheUnchanged]_vars

\* The last call caller t made was Clear, and it has returned
AfterClear(t) == pc[t] = "idle" /\ ret[t].op = "Clear"

\* C16: Clear removes every entry (index and list are empty afterwards, so
\* Has, Get, Keys and GetState find nothing), emits no notification and
\* leaves the cache usable: a following Set inserts normally
C16_ClearEmptiesTheCache ==
  [][\A t \in DOMAIN pc :
       /\ Completes(t, "Clear")
           => /\ cache' = << >>
              /\ ListNodes' = << >>
              /\ heap'[tailNode'].previous = headNode'
              /\ NewNotes = << >>
       /\ \A k \in KeySet :
            (AfterClear(t) /\ SetStep(t, k))
            => /\ ret'[t].out[1] = "nil"
               /\ DOMAIN cache' = {k}
               /\ AtFront(k)
               /\ Len(ListNodes') = 1
               /\ heap'[cache'[k]].value = ret'[t].out[2]
               /\ NewNotes = << >>]_vars

\* A sweep is scheduled (the timer is armed) or has fired and waits for the lock
SweepScheduled == garbageCollectionTimer = "armed" \/ sweeps > 0

\* Some indexed entry is over its TTL at the last clock reading
SomeExpired == \E k \in DOMAIN cache : ~Live(clock, cache[k])

\* C17: while a Set has happened since the last Clear the sweeper keeps
\* firing, so at every moment another sweep is still to come; in particular
\* an entry whose TTL has elapsed, and which no public operation touches any
\* more, still has a sweep ahead of it that will evict it as Expired
C17_SweeperKeepsFiring ==
  (Quiescent /\ SomeExpired /\ garbageCollectionTimer # "nil") => SweepScheduled

\* The sweeper is Idle while the timer field is nil and Running otherwise
SweeperIdle == garbageCollectionTimer = "nil"

\* C18: the sweeper is Idle from New to the first Set; a Set makes it Running
\* and, out of Idle, starts a fresh schedule; Clear makes it Idle; while it is
\* Running a sweep is scheduled; nothing but Set starts a sweep schedule
C18_SweeperLifecycle ==
  [][/\ (\A t \in DOMAIN ret : ret[t].op = "New") => SweeperIdle
     /\ \A t \in DOMAIN pc :
          /\ (\E k \in KeySet : SetStep(t, k)) =>
               /\ ~SweeperIdle'
               /\ SweeperIdle => garbageCollectionTimer' = "armed"
          /\ Completes(t, "Clear") => SweeperIdle'
     /\ ~SweeperIdle' => SweepScheduled'
     /\ (SweeperIdle /\ ~SweeperIdle') => \E t \in DOMAIN pc : \E k \in KeySet : SetStep(t, k)
    ]_vars

\* The entries of the nodes of a list, in list order
Contents(h, nodes) == [i \in 1..Len(nodes) |-> ToStateEntry(h[nodes[i]])]

\* s can be had from t by leaving elements out
RECURSIVE IsSubSeq(_, _)
IsSubSeq(s, t) ==
  IF s = << >> THEN TRUE
  ELSE IF t = << >> THEN FALSE
  ELSE IF Head(s) = Head(t) THEN IsSubSeq(Tail(s), Tail(t))
  ELSE IsSubSeq(s, Tail(t))

\* The entries of es that are within the TTL at reading now
LiveAt(now, es) ==
  LET Within(e) == config.TTL >= now - e.LastUsedAt IN SelectSeq(es, Within)

\* One sweep in this step: of the timer callback, of Keys or of Entries
ExpirySweepStep == fault' = "none" /\ (SweeperStep \/ \E t \in DOMAIN pc : SweepStep(t))

\* C19: one expiry sweep examines every node of the list: the nodes that are
\* over the TTL at the first reading of the sweep all leave the list, wherever
\* they sit, the nodes within the TTL at its last reading all stay, what stays
\* keeps its order, and each node that leaves is notified once as Expired
C19_SweepExaminesEveryNode ==
  [][ExpirySweepStep =>
       LET before == Contents(heap, ListNodes)
           after  == Contents(heap', ListNodes')
       IN  /\ IsSubSeq(after, LiveAt(clock, before))
           /\ IsSubSeq(LiveAt(clock', before), after)
           /\ Len(NewNotes) = Len(before) - Len(after)
           /\ \A i \in 1..Len(NewNotes) : NewNotes[i].Reason = EvictionReasonExpired
    ]_vars

\* The callback has swept a list of b, set last, in front of a, set with a
\* timestamp ahead of the clock: b is gone as Expired and a is still there
C19_Witness ==
  /\ calls = 2 /\ pc[1] = "idle" /\ ret[1].op = "Set" /\ ret[1].key = "b"
  /\ garbageCollectionTimer = "fired" /\ sweeps = 0 /\ outbox = << >>
  /\ Len(chan) = 1 /\ chan[1].Key = "b" /\ chan[1].Reason = EvictionReasonExpired
  /\ DOMAIN cache = {"a"} /\ heap[cache["a"]].lastUsedAt = MaxClock
  /\ Len(ListNodes) = 1

\* s is the beginning of t
IsPrefix(s, t) == Len(s) <= Len(t) /\ SubSeq(t, 1, Len(s)) = s

RECURSIVE Reverse(_)
Reverse(s) == IF s = << >> THEN << >> ELSE Reverse(Tail(s)) \o <<Head(s)>>

\* The entry a notification is about
Evicted(e) ==
  [Key |-> e.Key, Value |-> e.Value, Counter |-> e.Counter,
   LastUsedAt |-> e.LastUsedAt, CreatedAt |-> e.CreatedAt]

ConfigsChan ==
  [MaxSize : {2}, TTL : {0}, EvictionPolicy : {LRA}, EvictionChannel : {TRUE, FALSE}]

InitChan == New(ConfigsChan, 1)

SpecChan == InitChan /\ [][Next]_vars /\ WF_vars(Send) /\ WF_vars(Receive)

\* C21: the send of a notification is made under the cache lock: a sender
\* blocks only on a channel that has no room, while it is blocked no call
\* starts, goes on or returns and nothing of the cache changes, no
\* notification is lost, the lock is free again once the consumer has
\* received, and without a channel no eviction ever blocks
C21_SendHoldsTheLock ==
  /\ [][/\ Locked =>
             /\ UNCHANGED <<cache, heap, headNode, tailNode, pc, arg, lnode, ret,
                            calls, clock>>
             /\ Emitted' = Emitted \/ (chan # << >> /\ Emitted' = Tail(Emitted))
        /\ (~Locked /\ Locked') => Len(chan') = ChanCap
        /\ ~config.EvictionChannel => (~Locked' /\ chan' = << >>)
       ]_vars
  /\ (Locked ~> ~Locked)

\* A sender is blocked on the full channel
C21_Witness == config.EvictionChannel /\ Len(outbox) > 0 /\ Len(chan) = ChanCap

\* Caller t calls GetState in this step
GetStateStep(t) == Completes(t, "GetState")

\* C22: GetState returns the policy of the cache and, from head to tail, the
\* key, value, counter, lastUsedAt and createdAt of every node of the list,
\* every indexed entry among them, and it changes nothing: an expired entry
\* is returned and stays
C22_GetStateWalksTheList ==
  [][\A t \in DOMAIN pc : GetStateStep(t) =>
       /\ ret'[t].out.EvictionPolicy = config.EvictionPolicy
       /\ ret'[t].out.Entries = Contents(heap, ListNodes)
       /\ \A k \in DOMAIN cache :
            \E i \in 1..Len(ret'[t].out.Entries) :
              ret'[t].out.Entries[i] = ToStateEntry(heap[cache[k]])
       /\ CacheUnchanged
       /\ garbageCollectionTimer' = garbageCollectionTimer
    ]_vars

\* GetState has returned two entries, the one set last first, and the older
\* one is over its TTL and still in the cache
C22_Witness ==
  /\ pc[1] = "idle" /\ ret[1].op = "GetState"
  /\ Len(ret[1].out.Entries) = 2
  /\ ret[1].out.Entries[1].LastUsedAt > ret[1].out.Entries[2].LastUsedAt
  /\ ret[1].out.Entries[2].Key \in DOMAIN cache
  /\ ~Live(clock, cache[ret[1].out.Entries[2].Key])

\* C23: a SetState with a state of another policy than the cache's returns
\* an error and changes nothing: index, nodes, list order, counters,
\* timestamps and channel are as before and no notification is sent
C23_SetStatePolicyMismatch ==
  [][\A t \in DOMAIN pc : \A s \in States :
       (/\ ret'[t].op = "SetState"
        /\ s.EvictionPolicy # config.EvictionPolicy
        /\ SetState(t, s)) =>
         /\ Completes(t, "SetState")
         /\ ret'[t].out = "error"
         /\ CacheUnchanged
         /\ garbageCollectionTimer' = garbageCollectionTimer
    ]_vars

\* SetState has returned an error on a cache that holds entries
C23_Witness ==
  /\ pc[1] = "idle" /\ ret[1].op = "SetState" /\ ret[1].out = "error"
  /\ Population = 2 /\ Len(ListNodes) = 2

\* The last call of caller t was a SetState that returned no error
AfterSetState(t) == pc[t] = "idle" /\ ret[t].op = "SetState" /\ ret[t].out = "nil"

\* C24: a SetState with a state of the cache's policy replaces the content:
\* the index holds the keys of the state and no other, each on a node of the
\* list, the nodes from head to tail are the entries of the state in their
\* order with their values, counters, lastUsedAt and createdAt, nothing is
\* notified, and the next Get judges the expiry of an entry by the
\* lastUsedAt the state gave it
C24_SetStateReplacesContent ==
  [][\A t \in DOMAIN pc :
       /\ \A s \in States :
            (/\ ret'[t].op = "SetState"
             /\ s.EvictionPolicy = config.EvictionPolicy
             /\ SetState(t, s)) =>
              /\ Completes(t, "SetState")
              /\ ret'[t].out = "nil"
              /\ Contents(heap', ListNodes') = s.Entries
              /\ DOMAIN cache' = {s.Entries[i].Key : i \in 1..Len(s.Entries)}
              /\ \A k \in DOMAIN cache' :
                   cache'[k] \in Range(ListNodes') /\ heap'[cache'[k]].key = k
              /\ chan' = chan /\ outbox' = outbox
       /\ \A k \in DOMAIN cache :
            (AfterSetState(t) /\ GetStep(t, k)) =>
              (pc'[t] = "get_evict" <=> clock' - heap[cache[k]].lastUsedAt > config.TTL)
    ]_vars

\* SetState has put the entries a, b of a state into a cache that a Set had
\* written before: under LRA their counters of 1 are those of the state
C24_Witness ==
  /\ AfterSetState(1) /\ calls = 2 /\ garbageCollectionTimer = "armed"
  /\ config.EvictionPolicy = LRA
  /\ Len(ListNodes) = 2
  /\ heap[ListNodes[1]].key = "a" /\ heap[ListNodes[2]].key = "b"
  /\ \A i \in 1..2 : heap[ListNodes[i]].counter = 1
  /\ DOMAIN cache = {"a", "b"}

\* What GetState returns on the cache value w
StateOf(w) == WalkNext(w, w.heap[w.headNode].next, Len(w.heap), << >>).entries

\* The cache value after s = GetState(), Clear() and SetState(s) on w
RoundTrip(w) == Rehydrated(clear(w), StateOf(w))

\* What Keys returns on the cache value w with the clock readings reads
KeysOf(w, reads) == DOMAIN evictExpiredEntries(w, reads).w.cache

\* C25: on any cache the program can reach, with no call under way,
\* s = GetState(), Clear(), SetState(s) leave a cache whose GetState returns
\* the entries of s again, same keys in the same order with the same values,
\* counters, lastUsedAt and createdAt, and whose Keys returns the keys of s
\* when none of them is over the TTL
C25_StateRoundTrip ==
  Quiescent =>
    LET s  == StateOf(Here)
        w2 == RoundTrip(Here)
    IN  /\ StateOf(w2) = s
        /\ \A reads \in Readings(Len(w2.heap), clock, MaxClock) :
             (\A i \in 1..Len(s) : \A j \in 1..Len(reads) :
                config.TTL >= reads[j] - s[i].LastUsedAt) =>
               KeysOf(w2, reads) = {s[i].Key : i \in 1..Len(s)}

\* A cache of two entries within the TTL that differ in lastUsedAt and in
\* counter, and its round trip has the two entries
C25_Witness ==
  /\ Quiescent /\ Population = 2 /\ Len(ListNodes) = 2
  /\ \A k \in DOMAIN cache : Live(clock, cache[k])
  /\ heap[ListNodes[1]].lastUsedAt # heap[ListNodes[2]].lastUsedAt
  /\ heap[ListNodes[1]].counter # heap[ListNodes[2]].counter
  /\ Len(StateOf(RoundTrip(Here))) = 2

\* Caller t calls SetState in this step
SetStateStep(t) == Completes(t, "SetState")

\* C26: an entry that a Set or a Get puts into the cache starts with counter
\* 0 under LRA and 1 under LRI; while its key stays in the cache the counter
\* never goes down, under LRA it changes only in the touch of a Get that
\* returns the entry, and under LRI only in a Set of that key made while the
\* entry is within its TTL
C26_CounterChanges ==
  [][(\A t \in DOMAIN pc : ~SetStateStep(t)) =>
       /\ \A k \in (DOMAIN cache') \ (DOMAIN cache) :
            heap'[cache'[k]].counter = IF config.EvictionPolicy = LRI THEN 1 ELSE 0
       /\ \A k \in (DOMAIN cache') \cap (DOMAIN cache) :
            /\ heap'[cache'[k]].counter >= heap[cache[k]].counter
            /\ heap'[cache'[k]].counter # heap[cache[k]].counter =>
                 IF config.EvictionPolicy = LRA
                   THEN \E t \in DOMAIN pc : GetTouchStep(t) /\ arg[t] = k
                   ELSE /\ \E t \in DOMAIN pc : SetStep(t, k)
                        /\ config.TTL >= clock' - heap[cache[k]].lastUsedAt
    ]_vars

\* Under LRI a second Set of a has taken its counter from 1 to 2
C26_Witness ==
  /\ config.EvictionPolicy = LRI
  /\ pc[1] = "idle" /\ ret[1].op = "Set" /\ ret[1].key = "a"
  /\ "a" \in DOMAIN cache /\ heap[cache["a"]].counter = 2

\* A timestamp behind the clock once the clock has moved
PastTimestamp == 0

\* The calls of Next and SetWithTimestamp with a timestamp in the past
NextStamp ==
  \/ Next
  \/ \E t \in DOMAIN pc : \E k \in KeySet : \E v \in ValuesFor(k) :
       SetWithTimestamp(t, k, v, PastTimestamp)

SpecStamp == Init /\ [][NextStamp]_vars

\* Caller t ends a Set or SetWithTimestamp of key k that stored the entry
StoredStep(t, k) == SetStep(t, k) /\ ret'[t].out[1] = "nil"

\* C27: SetWithTimestamp stores its timestamp as the lastUsedAt of the entry
\* and expiry is judged against it: a Get finds the entry expired exactly
\* when its clock reading is more than TTL after the lastUsedAt, it then
\* returns nil and sends one Expired notification that carries the
\* lastUsedAt, and a sweep evicts no node whose lastUsedAt is within TTL of
\* the clock and leaves all such nodes in the list
C27_ExpiryFollowsTimestamp ==
  [][/\ \A t \in DOMAIN pc : \A k \in KeySet :
          /\ (StoredStep(t, k) /\ ret'[t].out[3] # NoTimestamp) =>
               /\ k \in DOMAIN cache'
               /\ heap'[cache'[k]].lastUsedAt = ret'[t].out[3]
          /\ (GetStep(t, k) /\ k \in DOMAIN cache) =>
               (pc'[t] = "get_evict" <=>
                  clock' - heap[cache[k]].lastUsedAt > config.TTL)
          /\ (GetEvictStep(t) /\ fault' = "none") =>
               /\ ret'[t].op = "Get" /\ ret'[t].out = << >>
               /\ NewNotes = << ToEvictedEntry(heap[lnode[t]], EvictionReasonExpired) >>
               /\ clock - heap[lnode[t]].lastUsedAt > config.TTL
     /\ ExpirySweepStep =>
          /\ \A i \in 1..Len(NewNotes) : clock' - NewNotes[i].LastUsedAt > config.TTL
          /\ IsSubSeq(LiveAt(clock', Contents(heap, ListNodes)),
                      Contents(heap', ListNodes'))
    ]_vars

\* A Get has found a, stored with a timestamp behind the clock, expired on
\* its first touch: it returned nil and its Expired notification is out
C27_Witness ==
  /\ pc[1] = "idle" /\ ret[1].op = "Get" /\ ret[1].key = "a" /\ ret[1].out = << >>
  /\ calls = 3 /\ clock = MaxClock
  /\ "a" \notin DOMAIN cache /\ "b" \in DOMAIN cache
  /\ heap[cache["b"]].lastUsedAt = MaxClock
  /\ \E i \in 1..Len(Emitted) :
       /\ Emitted[i].Key = "a" /\ Emitted[i].Reason = EvictionReasonExpired
       /\ Emitted[i].LastUsedAt = PastTimestamp /\ Emitted[i].CreatedAt = MaxClock

\* A cache without a bound on its size
ConfigsUnbounded ==
  [MaxSize : {0}, TTL : {0}, EvictionPolicy : {LRA, LRI}, EvictionChannel : {TRUE}]

InitUnbounded == New(ConfigsUnbounded, 1)

SpecUnbounded == InitUnbounded /\ [][Next]_vars

\* C28: with MaxSize = 0 no Set evicts an entry as Dropped, and every Set of
\* a key that is not in the cache adds that key and no other change to the
\* index, so the population grows by one
C28_MaxSizeZeroIsUnbounded ==
  [][config.MaxSize = 0 =>
       /\ \A i \in 1..Len(NewNotes) : NewNotes[i].Reason # EvictionReasonDropped
       /\ \A t \in DOMAIN pc : \A k \in KeySet :
            (SetStep(t, k) /\ k \notin DOMAIN cache) =>
              /\ ret'[t].out[1] = "nil"
              /\ DOMAIN cache' = DOMAIN cache \cup {k}
              /\ Population' = Population + 1
              /\ Len(ListNodes') = Len(ListNodes) + 1
              /\ NewNotes = << >>
    ]_vars

\* Three Sets have put three keys into the cache
C28_Witness ==
  /\ config.MaxSize = 0 /\ calls = 3 /\ Population = 3 /\ Len(ListNodes) = 3
  /\ pc[1] = "idle" /\ ret[1].op = "Set" /\ Emitted = << >>

\* C29: Get is atomic: when it touches, evicts or snapshots the node it
\* found, that node is still the node indexed under the key of the Get
C29_GetIsAtomic ==
  [][\A t \in DOMAIN pc :
       (GetEvictStep(t) \/ GetTouchStep(t) \/ GetSnapStep(t)) =>
         (arg[t] \in DOMAIN cache /\ cache[arg[t]] = lnode[t])
    ]_vars

\* C30: under LRA a Get never puts a key back that was removed while the Get
\* was under way: its touch adds no key to the index and no node to the list
C30_GetNeverReinserts ==
  [][\A t \in DOMAIN pc :
       (config.EvictionPolicy = LRA /\ GetTouchStep(t)) =>
         /\ DOMAIN cache' \subseteq DOMAIN cache
         /\ Len(ListNodes') <= Len(ListNodes)
         /\ Population' <= Population
    ]_vars

\* Two callers on one key, under both policies, with and without a channel.
\* Every step of a call under way is taken in the end, the blocked send goes
\* through when the channel has room and the consumer keeps receiving.
ConfigsTwo ==
  [MaxSize : {2}, TTL : {0}, EvictionPolicy : {LRA, LRI}, EvictionChannel : {TRUE, FALSE}]

InitTwo == New(ConfigsTwo, 2)

OneKey == KeySeq[1]

NextTwo ==
  \/ \E t \in DOMAIN pc : \E v \in ValuesFor(OneKey) : Set(t, OneKey, v)
  \/ \E t \in DOMAIN pc : \E v \in ValuesFor(OneKey) :
       SetWithTimestamp(t, OneKey, v, PastTimestamp)
  \/ \E t \in DOMAIN pc : Get(t, OneKey)
  \/ \E t \in DOMAIN pc : GetEvict(t)
  \/ \E t \in DOMAIN pc : GetTouch(t)
  \/ \E t \in DOMAIN pc : GetSnap(t)
  \/ \E t \in DOMAIN pc : Delete(t, OneKey)
  \/ \E t \in DOMAIN pc : Keys(t)
  \/ \E t \in DOMAIN pc : KeysSnap(t)
  \/ \E t \in DOMAIN pc : Entries(t)
  \/ \E t \in DOMAIN pc : EntriesSnap(t)
  \/ \E t \in DOMAIN pc : Clear(t)
  \/ \E t \in DOMAIN pc : GetState(t)
  \/ \E t \in DOMAIN pc : \E s \in States : Len(s.Entries) <= 1 /\ SetState(t, s)
  \/ \E t \in DOMAIN pc : Has(t, OneKey)
  \/ TimerFires
  \/ Sweeper
  \/ Send
  \/ Receive

\* Caller t is in a call, between two locks, and the lock it waits for is free
Ready(t) == pc[t] # "idle" /\ ~Locked /\ fault = "none"

\* Caller t takes the next step of its call
Advance(t) == pc[t] # "idle" /\ pc'[t] # pc[t]

\* A goroutine that waits for a free lock gets it: weak fairness of the next
\* step of each call under way, written out with Ready as what enables the step
SpecTwo ==
  /\ InitTwo /\ [][NextTwo]_vars
  /\ WF_vars(Send) /\ WF_vars(Receive)
  /\ \A t \in 1..2 : []<>(~Ready(t)) \/ []<><<Advance(t)>>_vars

\* C31: every notification with reason Expired is about an entry whose age,
\* the latest clock reading less its lastUsedAt, is more than TTL when the
\* step removes it; so a Get does not evict as Expired an entry that another
\* caller's Set refreshed after the Get's expiry test
C31_ExpiredAtRemoval ==
  [][\A i \in 1..Len(NewNotes) :
       NewNotes[i].Reason = EvictionReasonExpired =>
         clock' - NewNotes[i].LastUsedAt > config.TTL
    ]_vars

\* C32: what Keys and Entries return is the content of the cache at one
\* instant, that of the snapshot, and no returned entry is expired at that
\* instant: each is within TTL at the latest clock reading made before it,
\* whatever other callers did between the sweep and the snapshot
C32_SnapshotHasNoExpiredEntry ==
  [][\A t \in DOMAIN pc :
       /\ KeysSnapStep(t) =>
            /\ ret'[t].out = DOMAIN cache
            /\ \A k \in ret'[t].out : config.TTL >= clock - heap[cache[k]].lastUsedAt
       /\ EntriesSnapStep(t) =>
            /\ ret'[t].out = {ToCacheEntry(heap[cache[k]]) : k \in DOMAIN cache}
            /\ \A k \in DOMAIN cache : config.TTL >= clock - heap[cache[k]].lastUsedAt
    ]_vars

C34_SweepNotifiesTailFirst ==
  [][ExpirySweepStep =>
       /\ \A i \in 1..Len(NewNotes) : NewNotes[i].Reason = EvictionReasonExpired
       /\ IsSubSeq([i \in 1..Len(NewNotes) |-> Evicted(NewNotes[i])],
                   Reverse(Contents(heap, ListNodes)))
    ]_vars

\* Keys has swept a list of b in front of a: the notification of a, at the
\* tail, is in the channel and that of b waits behind it
C34_Witness ==
  /\ pc[1] = "keys_snap" /\ cache = << >>
  /\ Len(chan) = 1 /\ Len(outbox) = 1
  /\ chan[1].Reason = EvictionReasonExpired /\ chan[1].Key = "a"
  /\ outbox[1].Reason = EvictionReasonExpired /\ outbox[1].Key = "b"
  /\ ret[1].op = "Set" /\ ret[1].key = "b"

\* ------------------------------------------------- the scenario ExampleLRA
\* The calls of the scenario in order: A to E are the keys a to e
ScenarioCalls ==
  << <<"Set", "a">>, <<"Set", "b">>, <<"Set", "c">>, <<"Set", "d">>, <<"Delete", "d">>,
     <<"Set", "e">>, <<"Set", "e">>, <<"Keys", NoKey>>, <<"Has", "c">>, <<"Has", "e">>,
     <<"Get", "c">>, <<"Get", "c">> >>

\* calls counts up to MaxCalls: the scenario starts as far below as it has calls
ScenarioStart == MaxCalls - Len(ScenarioCalls)

\* The number of the call of the scenario that comes next
ScenarioAt == calls - ScenarioStart + 1

ConfigsScenario ==
  [MaxSize : {2}, TTL : {0}, EvictionPolicy : {LRA}, EvictionChannel : {TRUE}]

InitScenario ==
  /\ config \in ConfigsScenario
  /\ cache = << >>
  /\ heap = << doublyLinkedNode(NoKey, 0, 0, 0, 0, Nil, 2),
               doublyLinkedNode(NoKey, 0, 0, 0, 0, 1, Nil) >>
  /\ headNode = 1 /\ tailNode = 2
  /\ garbageCollectionTimer = "nil" /\ sweeps = 0
  /\ outbox = << >> /\ chan = << >>
  /\ pc = <<"idle">> /\ arg = <<NoKey>> /\ lnode = <<Nil>>
  /\ ret = << [op |-> "New", key |-> NoKey, out |-> TRUE] >>
  /\ clock = 0
  /\ calls = ScenarioStart
  /\ hits = << >>
  /\ fault = "none"

\* Call i of the scenario.  The first Set reads the clock before the sleep
\* and every later call after it: the sleep is longer than TTL, and the calls
\* after it take less than TTL together
ScenarioCall(i) ==
  LET op  == ScenarioCalls[i][1]
      key == ScenarioCalls[i][2]
  IN  /\ i = ScenarioAt
      /\ \/ /\ op = "Set" /\ Set(1, key, 1)
            /\ clock' = (IF i = 1 THEN 0 ELSE MaxClock)
            /\ heap'[cache'[key]].lastUsedAt = clock'
         \/ op = "Delete" /\ Delete(1, key)
         \/ op = "Keys" /\ Keys(1)
         \/ op = "Has" /\ Has(1, key)
         \/ op = "Get" /\ Get(1, key)

\* The timer may fire at any time after the first Set: with the default
\* interval of ten seconds it does not fire before the scenario ends, with an
\* interval of a few milliseconds it does
NextScenario ==
  \/ \E i \in 1..Len(ScenarioCalls) : ScenarioCall(i)
  \/ KeysSnap(1)
  \/ GetTouch(1)
  \/ GetSnap(1)
  \/ TimerFires
  \/ Sweeper
  \/ Send
  \/ Receive

SpecScenario == InitScenario /\ [][NextScenario]_vars

\* Call i of the scenario starts in this step
ScenarioStep(i) == calls = ScenarioStart + i - 1 /\ calls' = calls + 1

\* Key and reason of the notifications the step sends, in order
NotePairs == [i \in 1..Len(NewNotes) |-> <<NewNotes[i].Key, NewNotes[i].Reason>>]

\* C35: the scenario as stated, with the timer at its default interval of
\* ten seconds and so not fired while the scenario runs: the notifications
\* are A/Expired, B/Dropped and D/Deleted and no other, and Keys returns {C, E}
C35_ScenarioAsStated ==
  [][(garbageCollectionTimer # "fired" /\ garbageCollectionTimer' # "fired") =>
       /\ \A i \in 1..Len(NotePairs) :
            NotePairs[i] \in {<<"a", EvictionReasonExpired>>, <<"b", EvictionReasonDropped>>,
                              <<"d", EvictionReasonDeleted>>}
       /\ KeysSnapStep(1) => ret'[1].out = {"c", "e"}
    ]_vars

\* C35, as the code runs it: A is still in the cache at Set C unless a sweep
\* of the timer removed it before, which the default interval rules out, and
\* Set C then drops it; Set D drops B, Delete D notifies D as Deleted, the
\* other calls notify nothing, the second Set E is refused and Keys returns
\* {C, E}.  Only a sweep of the timer notifies A as Expired.
C35_ScenarioAsRun ==
  [][/\ ScenarioStep(3) =>
          /\ NotePairs = IF "a" \in DOMAIN cache
                           THEN << <<"a", EvictionReasonDropped>> >> ELSE << >>
          /\ garbageCollectionTimer = "armed" => "a" \in DOMAIN cache
     /\ ScenarioStep(4) => NotePairs = << <<"b", EvictionReasonDropped>> >>
     /\ ScenarioStep(5) => NotePairs = << <<"d", EvictionReasonDeleted>> >>
     /\ \A i \in {1, 2} \cup (6..Len(ScenarioCalls)) : ScenarioStep(i) => NotePairs = << >>
     /\ \A i \in {1, 2, 3, 4, 6} : ScenarioStep(i) => ret'[1].out[1] = "nil"
     /\ ScenarioStep(7) => ret'[1].out[1] = "error" /\ CacheUnchanged
     /\ SweeperStep => NotePairs \in {<< >>, << <<"a", EvictionReasonExpired>> >>}
     /\ KeysSnapStep(1) => ret'[1].out = {"c", "e"}
    ]_vars

\* Keys has returned {C, E} at the end of a run in which the timer never fired
C35_Witness ==
  /\ ScenarioAt = 9 /\ pc[1] = "idle"
  /\ ret[1].op = "Keys" /\ ret[1].out = {"c", "e"}
  /\ garbageCollectionTimer = "armed" /\ sweeps = 0
  /\ chan = << >> /\ outbox = << >>

\* C36: under LRI a Set or SetWithTimestamp of a key that is in the index
\* and over the TTL when the call starts evicts nothing and notifies nothing:
\* the node stays the node of the key with its counter and its createdAt,
\* its lastUsedAt becomes the timestamp of the call or else a clock reading
\* of the call, and it is the first node of the list
C36_SetOnExpiredKeyLRI ==
  [][\A t \in DOMAIN pc : \A k \in KeySet :
       (/\ config.EvictionPolicy = LRI /\ SetStep(t, k)
        /\ k \in DOMAIN cache /\ clock - heap[cache[k]].lastUsedAt > config.TTL)
       => /\ ret'[t].out[1] = "nil" /\ NewNotes = << >>
          /\ DOMAIN cache' = DOMAIN cache /\ Len(ListNodes') = Len(ListNodes)
          /\ heap'[cache'[k]].counter = heap[cache[k]].counter
          /\ heap'[cache'[k]].createdAt = heap[cache[k]].createdAt
          /\ IF ret'[t].out[3] # NoTimestamp
               THEN heap'[cache'[k]].lastUsedAt = ret'[t].out[3]
               ELSE heap'[cache'[k]].lastUsedAt \in clock..clock'
          /\ AtFront(k)
    ]_vars

\* Under LRI a was set at the first instant and set again, with another
\* value, after the TTL: the counter is still 1, createdAt is the first
\* instant and lastUsedAt the last, and nothing was notified
C36_Witness ==
  /\ config.EvictionPolicy = LRI /\ calls = 2 /\ pc[1] = "idle"
  /\ ret[1] = [op |-> "Set", key |-> "a", out |-> <<"nil", 2, NoTimestamp>>]
  /\ DOMAIN cache = {"a"}
  /\ heap[cache["a"]].counter = 1
  /\ heap[cache["a"]].createdAt = 0 /\ heap[cache["a"]].lastUsedAt = MaxClock
  /\ chan = << >> /\ outbox = << >>

\* C37, as stated: with TTL 0 a Get of a key of the index at a clock reading
\* later than or equal to the lastUsedAt of the entry goes on to evict it,
\* and a sweep removes every node whose lastUsedAt is not later than its
\* readings
C37_ZeroTTLExpiresAtEqualReading ==
  [][config.TTL = 0 =>
       /\ \A t \in DOMAIN pc : \A k \in KeySet :
            (GetStep(t, k) /\ k \in DOMAIN cache /\ clock' >= heap[cache[k]].lastUsedAt)
              => pc'[t] = "get_evict"
       /\ ExpirySweepStep =>
            \A n \in Range(ListNodes) :
              clock >= heap[n].lastUsedAt => ToStateEntry(heap[n]) \notin
                                               Range(Contents(heap', ListNodes'))
    ]_vars

\* C37, amended: with TTL 0 an entry is expired at every clock reading that
\* is later than its lastUsedAt and at no other.  A Get of a key of the index
\* goes on to evict the entry exactly when its reading is later, the eviction
\* sends one Expired notification and takes the key out of the index, and at
\* an equal reading the Get keeps the entry.  A sweep notifies as Expired and
\* takes from the list every node whose lastUsedAt is before the first
\* reading of the sweep, and keeps every node whose lastUsedAt is not before
\* its last reading
C37_ZeroTTLExpiresAtLaterReading ==
  [][config.TTL = 0 =>
       /\ \A t \in DOMAIN pc : \A k \in KeySet :
            /\ (GetStep(t, k) /\ k \in DOMAIN cache)
                 => /\ pc'[t] = "get_evict" <=> clock' > heap[cache[k]].lastUsedAt
                    /\ clock' <= heap[cache[k]].lastUsedAt
                         => /\ k \in DOMAIN cache' /\ NewNotes = << >>
                            /\ Len(ListNodes') = Len(ListNodes)
            /\ (GetEvictStep(t) /\ fault' = "none")
                 => /\ Len(NewNotes) = 1 /\ NewNotes[1].Key = arg[t]
                    /\ NewNotes[1].Reason = EvictionReasonExpired
                    /\ arg[t] \notin DOMAIN cache'
                    /\ ret'[t].out = << >>
       /\ ExpirySweepStep =>
            LET before == Contents(heap, ListNodes)
                after  == Contents(heap', ListNodes')
                IsOld(e) == e.LastUsedAt < clock
                IsNew(e)  == e.LastUsedAt >= clock'
                IsNoted(e)  == \E i \in 1..Len(NewNotes) :
                               /\ Evicted(NewNotes[i]) = e
                               /\ NewNotes[i].Reason = EvictionReasonExpired
            IN  /\ \A i \in 1..Len(before) :
                     IsOld(before[i]) => IsNoted(before[i])
                /\ \A i \in 1..Len(after) : ~IsOld(after[i])
                /\ IsSubSeq(SelectSeq(before, IsNew), after)
    ]_vars

\* With TTL 0, Keys has swept at the second instant a list of a, set at the
\* first instant: a is out of the index and notified as Expired
C37_Witness ==
  /\ config.TTL = 0 /\ calls = 2 /\ pc[1] = "keys_snap" /\ clock = MaxClock
  /\ ret[1] = [op |-> "Set", key |-> "a", out |-> <<"nil", 1, NoTimestamp>>]
  /\ cache = << >> /\ Len(ListNodes) = 0
  /\ Len(chan) = 1 /\ chan[1].Key = "a" /\ chan[1].LastUsedAt = 0
  /\ chan[1].Reason = EvictionReasonExpired

\* C38: a node that a Set without a timestamp makes has lastUsedAt at or
\* after its createdAt when the Set returns, also when the clock advances
\* between two readings of the call
C38_LastUsedNotBeforeCreated ==
  [][\A t \in DOMAIN pc : \A k \in KeySet :
       (StoredStep(t, k) /\ k \notin DOMAIN cache /\ ret'[t].out[3] = NoTimestamp)
         => /\ k \in DOMAIN cache'
            /\ heap'[cache'[k]].lastUsedAt >= heap'[cache'[k]].createdAt
    ]_vars

\* C39: SetState neither starts nor stops the sweeper.  A SetState step
\* leaves the timer and the sweeps under way as they are, whatever it
\* returns; the timer is started by a Set only; and while no timer was
\* started and no sweep is under way, entries leave the index in steps of
\* callers only, so an expired entry stays, Has finds it and GetState lists
\* it, until a call removes it
C39_SetStateLeavesTheSweeper ==
  [][/\ \A t \in DOMAIN pc :
          /\ SetStateStep(t) =>
               /\ garbageCollectionTimer' = garbageCollectionTimer
               /\ sweeps' = sweeps
          /\ (Completes(t, "Has") /\ garbageCollectionTimer = "nil") =>
               ret'[t].out = (ret'[t].key \in DOMAIN cache)
          /\ (GetStateStep(t) /\ garbageCollectionTimer = "nil") =>
               \A k \in DOMAIN cache :
                 \E i \in 1..Len(ret'[t].out.Entries) : ret'[t].out.Entries[i].Key = k
     /\ (garbageCollectionTimer = "nil" /\ garbageCollectionTimer' # "nil") =>
          \E t \in DOMAIN pc : \E k \in KeySet : SetStep(t, k)
     /\ sweeps' > sweeps => garbageCollectionTimer = "armed"
     /\ (garbageCollectionTimer = "nil" /\ sweeps = 0 /\ calls' = calls /\ pc' = pc) =>
          /\ cache' = cache /\ heap' = heap
          /\ headNode' = headNode /\ tailNode' = tailNode
    ]_vars

\* After New and a SetState, with no Set, a is in the index and over the TTL
\* at the reading of a Get that is about to evict it: no timer was started
C39_Witness ==
  /\ calls = 2 /\ garbageCollectionTimer = "nil" /\ sweeps = 0
  /\ ret[1].op = "SetState" /\ ret[1].out = "nil"
  /\ pc[1] = "get_evict" /\ arg[1] = "a"
  /\ "a" \in DOMAIN cache /\ clock - heap[cache["a"]].lastUsedAt > config.TTL
====
